---- MODULE Spec2Model ----
(***************************************************************************)
(* A model of server/geometry.py: conversions between geographic,          *)
(* Mercator and tile/region grid coordinates, quad-tree keys, grid         *)
(* iteration and bounding-box intersection with antimeridian wraparound.   *)
(*                                                                         *)
(* Python values are tagged records: a number is Num(n), the absent value  *)
(* is None, a raised exception is Raise(type), an object carries its class *)
(* name in t and its attributes as fields, a list (or the items a          *)
(* generator yields) is List(<<...>>).                                     *)
(*                                                                         *)
(* Lengths are exact: a Mercator coordinate is an integer number of units, *)
(* the unit being chosen so that _originshift (pi * 6378137 metres) is     *)
(* originshift units and every product and quotient of the conversions     *)
(* between tiles and Mercator coordinates is an integer or a ratio of      *)
(* integers.                                                               *)
(***************************************************************************)
EXTENDS Integers, Sequences, FiniteSets, TLC

VARIABLES op, args, pc, ret, frame

vars == <<op, args, pc, ret, frame>>

----------------------------------------------------------------------------
(* Bounds of the explored inputs *)

MaxZoom == 2        \* zoom levels 0..MaxZoom
MaxCount == 3       \* ncol, nrow 0..MaxCount in the griditer inputs
MaxStep == 2        \* step 1..MaxStep in the griditer inputs
MaxWrap == 2        \* box inputs reach MaxWrap columns past the right edge

----------------------------------------------------------------------------
(* Python values *)

None == [t |-> "None"]

Num(n) == [t |-> "num", v |-> n]

Raise(type) == [t |-> "exc", type |-> type]

List(items) == [t |-> "list", items |-> items]

IsNone(a) == a.t = "None"

IsExc(a) == a.t = "exc"

RECURSIVE Pow2(_)
Pow2(n) == IF n <= 0 THEN 1 ELSE 2 * Pow2(n - 1)

\* math.ceil(a / b) for integers a and b > 0
CeilDiv(a, b) == -((-a) \div b)

Max2(a, b) == IF a >= b THEN a ELSE b

Min2(a, b) == IF a <= b THEN a ELSE b

\* a & b of Python integers, b >= 0 (two's complement for a < 0)
RECURSIVE BitAnd(_, _)
BitAnd(a, b) ==
    IF b = 0 THEN 0
    ELSE (a % 2) * (b % 2) + 2 * BitAnd(a \div 2, b \div 2)

\* str(digit) of a one-digit integer
Str(d) == CASE d = 0 -> "0" [] d = 1 -> "1" [] d = 2 -> "2" [] d = 3 -> "3"
            [] d = 4 -> "4" [] d = 5 -> "5" [] d = 6 -> "6" [] d = 7 -> "7"
            [] d = 8 -> "8" [] d = 9 -> "9"

----------------------------------------------------------------------------
(* griditer *)

\* a range that includes its stop value
RECURSIVE Range_inclusive(_, _, _)
Range_inclusive(a, b, step) ==
    IF a > b THEN <<>> ELSE <<a>> \o Range_inclusive(a + step, b, step)

\* list(range(a, b, step)), step >= 1
RECURSIVE Range(_, _, _)
Range(a, b, step) ==
    IF a >= b THEN <<>> ELSE <<a>> \o Range(a + step, b, step)

\* the pairs <<c, r>> for one c, r running through rows
RECURSIVE ProductRow(_, _)
ProductRow(c, rows) ==
    IF rows = <<>> THEN <<>>
    ELSE <<(<<c, Head(rows)>>)>> \o ProductRow(c, Tail(rows))

\* list(itertools.product(cols, rows)): the rightmost iterable advances fastest
RECURSIVE Product(_, _)
Product(cols, rows) ==
    IF cols = <<>> THEN <<>>
    ELSE ProductRow(Head(cols), rows) \o Product(Tail(cols), rows)

\* griditer with the two ranges exchanged in the product: rows outer
griditer_rows_outer(x, y, ncol, nrow, step) ==
    LET nr == IF IsNone(nrow) THEN ncol ELSE nrow.v
        p == Product(Range(y, y + nr, step), Range(x, x + ncol, step))
    IN  [i \in 1..Len(p) |-> <<p[i][2], p[i][1]>>]

\* the pairs griditer yields, in order; nrow is None or Num(n)
griditer(x, y, ncol, nrow, step) ==
    LET nr == IF IsNone(nrow) THEN ncol ELSE nrow.v
    IN  Product(Range(x, x + ncol, step), Range(y, y + nr, step))

----------------------------------------------------------------------------
(* Grid coordinates *)

\* GridCoordinate.__init__, run on an instance of a concrete subclass
GridCoordinate_init(cls, zoom, x, y) ==
    [t |-> cls, zoom |-> zoom, x |-> x, y |-> y]

\* GridCoordinate(zoom, x, y): the class has metaclass ABCMeta and the
\* abstract method zoom_in, so instantiating it raises TypeError
GridCoordinate(zoom, x, y) == Raise("TypeError")

\* TileCoordinate(zoom, x, y): implements zoom_in, inherits __init__
TileCoordinate(zoom, x, y) == GridCoordinate_init("TileCoordinate", zoom, x, y)

\* the loop with the weights of the x and y bits exchanged
RECURSIVE quad_key_loop_swapped(_, _, _)
quad_key_loop_swapped(tx, ty, i) ==
    IF i <= 0 THEN <<>>
    ELSE LET mask == Pow2(i - 1)
             d1 == IF BitAnd(ty, mask) # 0 THEN 1 ELSE 0
             d2 == IF BitAnd(tx, mask) # 0 THEN 2 ELSE 0
         IN  <<Str(d1 + d2)>> \o quad_key_loop_swapped(tx, ty, i - 1)

\* the loop of encode_quad_tree from position i down to 1; the key is the
\* sequence of its characters
RECURSIVE quad_key_loop(_, _, _)
quad_key_loop(tx, ty, i) ==
    IF i <= 0 THEN <<>>
    ELSE LET mask == Pow2(i - 1)
             d1 == IF BitAnd(tx, mask) # 0 THEN 1 ELSE 0
             d2 == IF BitAnd(ty, mask) # 0 THEN 2 ELSE 0
         IN  <<Str(d1 + d2)>> \o quad_key_loop(tx, ty, i - 1)

\* a key whose loop starts one position too low: range(zoom - 1, 0, -1)
encode_quad_tree_short(self) ==
    quad_key_loop(self.x.v, self.y.v, self.zoom - 1)

encode_quad_tree(self) == quad_key_loop(self.x.v, self.y.v, self.zoom)

\* for x, y in pairs: yield TileCoordinate(zoom, x, y)
TilesOf(zoom, pairs) ==
    [i \in 1..Len(pairs) |->
        TileCoordinate(zoom, Num(pairs[i][1]), Num(pairs[i][2]))]

TileCoordinate_zoom_in(self) ==
    List(TilesOf(self.zoom + 1,
                 griditer(self.x.v * 2, self.y.v * 2, 2, None, 1)))

\* a region whose root tile is not scaled by tiles_per_row
RegionCoordinate_unscaled(zoom, x, y, log_tiles_per_row) ==
    IF log_tiles_per_row \notin 0..4 THEN Raise("AssertionError")
    ELSE [t |-> "RegionCoordinate", zoom |-> zoom, x |-> x, y |-> y,
          log_tiles_per_row |-> log_tiles_per_row,
          tiles_per_row |-> Pow2(log_tiles_per_row),
          root_tile |-> TileCoordinate(zoom, x, y)]

RegionCoordinate(zoom, x, y, log_tiles_per_row) ==
    IF log_tiles_per_row \notin 0..4 THEN Raise("AssertionError")
    ELSE LET tiles_per_row == Pow2(log_tiles_per_row)
         IN  [t |-> "RegionCoordinate", zoom |-> zoom, x |-> x, y |-> y,
              log_tiles_per_row |-> log_tiles_per_row,
              tiles_per_row |-> tiles_per_row,
              root_tile |-> TileCoordinate(zoom, Num(x.v * tiles_per_row),
                                                 Num(y.v * tiles_per_row))]

RegionCoordinate_get_tiles(self) ==
    List(TilesOf(self.root_tile.zoom,
                 griditer(self.root_tile.x.v, self.root_tile.y.v,
                          self.tiles_per_row, None, 1)))

\* for x, y in pairs: yield RegionCoordinate(zoom, x, y, log_tiles_per_row)
RegionsOf(zoom, pairs, log_tiles_per_row) ==
    [i \in 1..Len(pairs) |->
        RegionCoordinate(zoom, Num(pairs[i][1]), Num(pairs[i][2]),
                         log_tiles_per_row)]

RegionCoordinate_zoom_in(self) ==
    List(RegionsOf(self.zoom + 1,
                   griditer(self.x.v * 2, self.y.v * 2, 2, None, 1),
                   self.log_tiles_per_row))

----------------------------------------------------------------------------
(* Projection parameters, init_geometry() *)

tilesize == 256

\* _originshift in units; the unit makes _originshift / 180 and
\* _initialresolution / 2^zoom integers for every zoom explored
originshift == 180 * 128 * Pow2(MaxZoom + 1)

initialresolution == (2 * originshift) \div tilesize

originshift_180 == originshift \div 180

----------------------------------------------------------------------------
(* Coordinate conversions *)

GeographicCoordinate(lon, lat) ==
    [t |-> "GeographicCoordinate", lon |-> lon, lat |-> lat]

MercatorCoordinate(x, y) == [t |-> "MercatorCoordinate", x |-> x, y |-> y]

\* a * k and k + a for a number k: TypeError when a is None
Times(a, k) == IF IsNone(a) THEN Raise("TypeError") ELSE Num(a.v * k)

Plus(a, k) == IF IsNone(a) THEN Raise("TypeError") ELSE Num(a.v + k)

\* math.log(math.tan((90 + lat) * _pi_360)) / _pi_180 and its inverse
\* (2 * math.atan(math.exp(d * _pi_180)) - _pi_2) * _180_pi, tabulated at the
\* sampled latitudes and rounded to whole degrees
LogTan(lat) == CASE lat = -60 -> -75 [] lat = -30 -> -31 [] lat = 0 -> 0
                 [] lat = 30 -> 31 [] lat = 60 -> 75

AtanExp(d) == CASE d = -75 -> -60 [] d = -31 -> -30 [] d = 0 -> 0
                [] d = 31 -> 30 [] d = 75 -> 60

GeographicCoordinate_to_mercator(self) ==
    LET x == Times(self.lon, originshift_180)
        s == Plus(self.lat, 90)
    IN  IF IsExc(x) THEN x
        ELSE IF IsExc(s) THEN s
        ELSE MercatorCoordinate(x, Num(LogTan(s.v - 90) * originshift_180))

MercatorCoordinate_to_geographic(self) ==
    GeographicCoordinate(
        IF IsNone(self.x) THEN None ELSE Num(self.x.v \div originshift_180),
        IF IsNone(self.y) THEN None
        ELSE Num(AtanExp(self.y.v \div originshift_180)))

\* transform(x) inside to_tile: ((x + _originshift) / res) / _tilesize is
\* the ratio (x + originshift) / (res * tilesize)
transform(x, res) ==
    LET s == Plus(x, originshift)
    IN  IF IsExc(s) THEN s ELSE Num(CeilDiv(s.v, res * tilesize) - 1)

MercatorCoordinate_to_tile(self, zoom) ==
    LET res == initialresolution \div Pow2(zoom)
        tx == transform(self.x, res)
        ty == transform(self.y, res)
    IN  IF IsExc(tx) THEN tx
        ELSE IF IsExc(ty) THEN ty
        ELSE TileCoordinate(zoom, tx, Num((Pow2(zoom) - 1) - ty.v))

TileCoordinate_to_mercator(self) ==
    LET res == initialresolution \div Pow2(self.zoom)
    IN  MercatorCoordinate(
            IF IsNone(self.x) THEN None
            ELSE Num(self.x.v * tilesize * res - originshift),
            IF IsNone(self.y) THEN None
            ELSE Num((Pow2(self.zoom) - self.y.v) * tilesize * res - originshift))

----------------------------------------------------------------------------
(* Bounding boxes *)

GeographicBB(min_lon, min_lat, max_lon, max_lat) ==
    [t |-> "GeographicBB", min |-> GeographicCoordinate(min_lon, min_lat),
                           max |-> GeographicCoordinate(max_lon, max_lat)]

\* an activation that also retries a box whose max longitude is exactly 180
GeographicBB_intersection_body_ge(self, other) ==
    LET intersects == /\ self.min.lon.v <= other.max.lon.v
                      /\ self.max.lon.v >= other.min.lon.v
                      /\ self.min.lat.v <= other.max.lat.v
                      /\ self.max.lat.v >= other.min.lat.v
    IN  IF intersects
        THEN [k |-> "return",
              value |-> GeographicBB(
                  Num(Max2(self.min.lon.v, other.min.lon.v)),
                  Num(Max2(self.min.lat.v, other.min.lat.v)),
                  Num(Min2(self.max.lon.v, other.max.lon.v)),
                  Num(Min2(self.max.lat.v, other.max.lat.v)))]
        ELSE IF self.max.lon.v >= 180
        THEN [k |-> "call",
              self |-> GeographicBB(Num(-180), self.min.lat,
                                    Num(self.max.lon.v - 360), self.max.lat)]
        ELSE [k |-> "return", value |-> None]

\* one activation of GeographicBB.intersection: it returns a value, or
\* calls itself on the normalised box and returns what that call returns
GeographicBB_intersection_body(self, other) ==
    LET intersects == /\ self.min.lon.v <= other.max.lon.v
                      /\ self.max.lon.v >= other.min.lon.v
                      /\ self.min.lat.v <= other.max.lat.v
                      /\ self.max.lat.v >= other.min.lat.v
    IN  IF intersects
        THEN [k |-> "return",
              value |-> GeographicBB(
                  Num(Max2(self.min.lon.v, other.min.lon.v)),
                  Num(Max2(self.min.lat.v, other.min.lat.v)),
                  Num(Min2(self.max.lon.v, other.max.lon.v)),
                  Num(Min2(self.max.lat.v, other.max.lat.v)))]
        ELSE IF self.max.lon.v > 180
        THEN [k |-> "call",
              self |-> GeographicBB(Num(-180), self.min.lat,
                                    Num(self.max.lon.v - 360), self.max.lat)]
        ELSE [k |-> "return", value |-> None]

GridBB(zoom, min_x, min_y, max_x, max_y) ==
    LET mn == GridCoordinate(zoom, min_x, min_y)
        mx == GridCoordinate(zoom, max_x, max_y)
    IN  IF IsExc(mn) THEN mn
        ELSE IF IsExc(mx) THEN mx
        ELSE [t |-> "GridBB", zoom |-> zoom, min |-> mn, max |-> mx]

\* bool(v): an empty list is false, an object without __bool__ is true
Truthy(v) == IF v.t = "list" THEN v.items # <<>> ELSE TRUE

GridBB_intersection(self, other) ==
    LET intersects == /\ self.min.x.v <= other.max.x.v
                      /\ self.max.x.v >= other.min.x.v
                      /\ self.min.y.v <= other.max.y.v
                      /\ self.max.y.v >= other.min.y.v
    IN  IF intersects
        THEN GridBB(self.zoom,
                    Num(Max2(self.min.x.v, other.min.x.v)),
                    Num(Max2(self.min.y.v, other.min.y.v)),
                    Num(Min2(self.max.x.v, other.max.x.v)),
                    Num(Min2(self.max.y.v, other.max.y.v)))
        ELSE List(<<>>)

GridBB_intersections(self, other) ==
    LET i == GridBB_intersection(self, other)
    IN  IF IsExc(i) THEN i
        ELSE LET first == IF Truthy(i) THEN <<i>> ELSE <<>>
             IN  IF self.max.x.v >= Pow2(self.zoom)
                 THEN LET w == GridBB(self.zoom, Num(0), self.min.y,
                                      Num(self.max.x.v % Pow2(self.zoom)),
                                      self.max.y)
                          j == IF IsExc(w) THEN w
                               ELSE GridBB_intersection(w, other)
                      IN  IF IsExc(j) THEN j
                          ELSE List(first \o (IF Truthy(j) THEN <<j>> ELSE <<>>))
                 ELSE List(first)

GridBB_is_inside(self, tile) ==
    /\ self.min.y.v <= tile.y.v
    /\ tile.y.v <= self.max.y.v
    /\ \/ self.min.x.v <= tile.x.v /\ tile.x.v <= self.max.x.v
       \/ /\ self.max.x.v > Pow2(tile.zoom) - 1
          /\ 0 <= tile.x.v
          /\ tile.x.v <= self.max.x.v % Pow2(tile.zoom)

MercatorBB(min, max) == [t |-> "MercatorBB", min |-> min, max |-> max]

MercatorBB_to_tile(self, zoom) ==
    LET p1 == MercatorCoordinate_to_tile(self.min, zoom)
        p2 == MercatorCoordinate_to_tile(self.max, zoom)
    IN  IF IsExc(p1) THEN p1
        ELSE IF IsExc(p2) THEN p2
        ELSE GridBB(zoom, p1.x, p2.y, p2.x, p1.y)

----------------------------------------------------------------------------
(* Inputs *)

Zooms == 0..MaxZoom

Opt(S) == {None} \cup {Num(n) : n \in S}

\* valid tiles: 0 <= x, y < 2^zoom
ValidTiles ==
    UNION {{TileCoordinate(z, Num(x), Num(y)) :
               x \in 0..(Pow2(z) - 1), y \in 0..(Pow2(z) - 1)} : z \in Zooms}

\* Mercator coordinates on the tile corners of the deepest zoom and one
\* unit past them
MercSamples ==
    {k * ((2 * originshift) \div Pow2(MaxZoom)) - originshift + d :
        k \in 0..Pow2(MaxZoom), d \in {0, 1}}

LonSamples == {-180, -90, 0, 90, 180}

LatSamples == {-60, -30, 0, 30, 60}

BoxLons == {-180, -170, 0, 170, 180, 190, 550}

BoxLats == {0, 10}

GeoBoxes ==
    {GeographicBB(Num(a), Num(b), Num(c), Num(d)) :
        a \in BoxLons, b \in BoxLats, c \in BoxLons, d \in BoxLats}

\* constructor arguments <<min_x, min_y, max_x, max_y>> of grid boxes at
\* zoom z with min <= max, max.x up to MaxWrap columns past the right edge
GridBoxArgs(z) ==
    {b \in (0..(Pow2(z) - 1 + MaxWrap)) \X (0..1)
           \X (0..(Pow2(z) - 1 + MaxWrap)) \X (0..1) :
        b[1] <= b[3] /\ b[2] <= b[4]}

Start(o, a) ==
    /\ op = o
    /\ args = a
    /\ pc = "start"
    /\ ret = None
    /\ frame = None

Init ==
    \/ \E x \in 0..1, y \in 0..1, ncol \in 0..MaxCount,
          nrow \in Opt(0..MaxCount), step \in 1..MaxStep :
          Start("griditer", [x |-> x, y |-> y, ncol |-> ncol, nrow |-> nrow,
                             step |-> step])
    \/ \E z \in Zooms :
       \E x \in 0..(Pow2(z) - 1 + MaxWrap), y \in 0..(Pow2(z) - 1 + MaxWrap) :
          Start("encode_quad_tree", [self |-> TileCoordinate(z, Num(x), Num(y))])
    \/ \E t \in ValidTiles : Start("TileCoordinate.zoom_in", [self |-> t])
    \/ \E t \in ValidTiles, k \in 0..5, m \in {"zoom_in", "get_tiles"} :
          Start("RegionCoordinate." \o m,
                [zoom |-> t.zoom, x |-> t.x, y |-> t.y, log_tiles_per_row |-> k])
    \/ \E z \in Zooms :
       \E x \in Opt(0..(Pow2(z) - 1)), y \in Opt(0..(Pow2(z) - 1)) :
          Start("TileCoordinate.to_mercator", [self |-> TileCoordinate(z, x, y)])
    \/ \E z \in Zooms, x \in Opt(MercSamples), y \in Opt(MercSamples) :
          Start("MercatorCoordinate.to_tile",
                [self |-> MercatorCoordinate(x, y), zoom |-> z])
    \/ \E t \in ValidTiles : Start("to_mercator.to_tile", [self |-> t])
    \/ \E lon \in Opt(LonSamples), lat \in Opt(LatSamples) :
          Start("GeographicCoordinate.to_mercator",
                [self |-> GeographicCoordinate(lon, lat)])
    \/ \E lon \in Opt(LonSamples), lat \in Opt(LatSamples) :
          Start("MercatorCoordinate.to_geographic",
                [self |-> MercatorCoordinate(
                    IF IsNone(lon) THEN None ELSE Num(lon.v * originshift_180),
                    IF IsNone(lat) THEN None
                    ELSE Num(LogTan(lat.v) * originshift_180))])
    \/ \E a \in GeoBoxes, b \in GeoBoxes :
          /\ op = "GeographicBB.intersection"
          /\ args = [self |-> a, other |-> b]
          /\ pc = "start"
          /\ ret = None
          /\ frame = [self |-> a, depth |-> 0]
    \/ \E z \in 1..MaxZoom : \E a \in GridBoxArgs(z) :
          Start("GridBB", [zoom |-> z, box |-> a])
    \/ \E z \in Zooms, a \in MercSamples, c \in MercSamples,
          b \in {-1, 0}, d \in {0, 1} :
          Start("MercatorBB.to_tile",
                [self |-> MercatorBB(MercatorCoordinate(Num(a), Num(b)),
                                     MercatorCoordinate(Num(c), Num(d))),
                 zoom |-> z])
    \/ \E z \in 1..MaxZoom : \E a \in GridBoxArgs(z), b \in GridBoxArgs(z) :
          Start("GridBB.intersections", [zoom |-> z, self |-> a, other |-> b])
    \/ \E z \in 1..MaxZoom :
       \E a \in GridBoxArgs(z), x \in 0..(Pow2(z) - 1), y \in 0..1 :
          Start("GridBB.is_inside",
                [zoom |-> z, self |-> a, tile |-> TileCoordinate(z, Num(x), Num(y))])

----------------------------------------------------------------------------
(* Operations: each applies the function to the drawn input *)

Return(o, value) ==
    /\ pc = "start"
    /\ op = o
    /\ ret' = value
    /\ pc' = "done"
    /\ UNCHANGED <<op, args, frame>>

Call_griditer ==
    Return("griditer",
           List(griditer(args.x, args.y, args.ncol, args.nrow, args.step)))

Call_encode_quad_tree ==
    Return("encode_quad_tree", List(encode_quad_tree(args.self)))

Call_TileCoordinate_zoom_in ==
    Return("TileCoordinate.zoom_in", TileCoordinate_zoom_in(args.self))

\* RegionCoordinate(zoom, x, y, k).zoom_in()
Call_RegionCoordinate_zoom_in ==
    Return("RegionCoordinate.zoom_in",
           LET r == RegionCoordinate(args.zoom, args.x, args.y,
                                     args.log_tiles_per_row)
           IN  IF IsExc(r) THEN r ELSE RegionCoordinate_zoom_in(r))

\* RegionCoordinate(zoom, x, y, k).get_tiles()
Call_RegionCoordinate_get_tiles ==
    Return("RegionCoordinate.get_tiles",
           LET r == RegionCoordinate(args.zoom, args.x, args.y,
                                     args.log_tiles_per_row)
           IN  IF IsExc(r) THEN r ELSE RegionCoordinate_get_tiles(r))

Call_TileCoordinate_to_mercator ==
    Return("TileCoordinate.to_mercator", TileCoordinate_to_mercator(args.self))

Call_MercatorCoordinate_to_tile ==
    Return("MercatorCoordinate.to_tile",
           MercatorCoordinate_to_tile(args.self, args.zoom))

\* t.to_mercator().to_tile(t.zoom)
Call_round_trip ==
    Return("to_mercator.to_tile",
           MercatorCoordinate_to_tile(TileCoordinate_to_mercator(args.self),
                                      args.self.zoom))

Call_GeographicCoordinate_to_mercator ==
    Return("GeographicCoordinate.to_mercator",
           GeographicCoordinate_to_mercator(args.self))

Call_MercatorCoordinate_to_geographic ==
    Return("MercatorCoordinate.to_geographic",
           MercatorCoordinate_to_geographic(args.self))

\* self.intersection(other): one activation per step
Call_GeographicBB_intersection ==
    /\ op = "GeographicBB.intersection"
    /\ pc \in {"start", "call"}
    /\ LET b == GeographicBB_intersection_body(frame.self, args.other)
       IN  IF b.k = "return"
           THEN /\ ret' = b.value
                /\ pc' = "done"
                /\ UNCHANGED frame
           ELSE /\ frame' = [self |-> b.self, depth |-> frame.depth + 1]
                /\ pc' = "call"
                /\ UNCHANGED ret
    /\ UNCHANGED <<op, args>>

BoxOf(zoom, a) == GridBB(zoom, Num(a[1]), Num(a[2]), Num(a[3]), Num(a[4]))

Call_GridBB == Return("GridBB", BoxOf(args.zoom, args.box))

Call_MercatorBB_to_tile ==
    Return("MercatorBB.to_tile", MercatorBB_to_tile(args.self, args.zoom))

\* GridBB(...).intersections(GridBB(...))
Call_GridBB_intersections ==
    Return("GridBB.intersections",
           LET self == BoxOf(args.zoom, args.self)
               other == BoxOf(args.zoom, args.other)
           IN  IF IsExc(self) THEN self
               ELSE IF IsExc(other) THEN other
               ELSE GridBB_intersections(self, other))

\* GridBB(...).is_inside(tile)
Call_GridBB_is_inside ==
    Return("GridBB.is_inside",
           LET self == BoxOf(args.zoom, args.self)
           IN  IF IsExc(self) THEN self
               ELSE [t |-> "bool", v |-> GridBB_is_inside(self, args.tile)])

Next ==
    \/ Call_griditer
    \/ Call_encode_quad_tree
    \/ Call_TileCoordinate_zoom_in
    \/ Call_RegionCoordinate_zoom_in
    \/ Call_RegionCoordinate_get_tiles
    \/ Call_TileCoordinate_to_mercator
    \/ Call_MercatorCoordinate_to_tile
    \/ Call_round_trip
    \/ Call_GeographicCoordinate_to_mercator
    \/ Call_MercatorCoordinate_to_geographic
    \/ Call_GeographicBB_intersection
    \/ Call_GridBB
    \/ Call_MercatorBB_to_tile
    \/ Call_GridBB_intersections
    \/ Call_GridBB_is_inside

Spec == Init /\ [][Next]_vars

----------------------------------------------------------------------------
(* Properties of the grid bounding box *)

Done(o) == op = o /\ pc = "done"

\* the rectangle <<min_x, min_y, max_x, max_y>> at zoom z as a GridBB object
Rect(z, r) ==
    [t |-> "GridBB", zoom |-> z,
     min |-> [t |-> "GridCoordinate", zoom |-> z, x |-> Num(r[1]), y |-> Num(r[2])],
     max |-> [t |-> "GridCoordinate", zoom |-> z, x |-> Num(r[3]), y |-> Num(r[4])]]

\* the cells of a GridBB object
Cells(b) == (b.min.x.v..b.max.x.v) \X (b.min.y.v..b.max.y.v)

\* the common part of two rectangles: no rectangle or one
Meet(z, a, b) ==
    IF a[1] <= b[3] /\ a[3] >= b[1] /\ a[2] <= b[4] /\ a[4] >= b[2]
    THEN <<Rect(z, <<Max2(a[1], b[1]), Max2(a[2], b[2]),
                     Min2(a[3], b[3]), Min2(a[4], b[4])>>)>>
    ELSE <<>>

\* C1: intersections(other) is the direct intersection, if not empty,
\* followed, when self.max.x >= 2^zoom, by the intersection of the box
\* [0, self.max.x mod 2^zoom] x [self.min.y, self.max.y] with other, if not
\* empty; at zoom 2, min=(3,0), max=(5,1) against min=(0,0), max=(1,1)
\* gives exactly the one box x in [0,1], y in [0,1].
C1_Intersections ==
    Done("GridBB.intersections") =>
        LET z == args.zoom
            a == args.self
            b == args.other
            wrapped == IF a[3] >= Pow2(z)
                       THEN Meet(z, <<0, a[2], a[3] % Pow2(z), a[4]>>, b)
                       ELSE <<>>
        IN  /\ ret = List(Meet(z, a, b) \o wrapped)
            /\ (z = 2 /\ a = <<3, 0, 5, 1>> /\ b = <<0, 0, 1, 1>>)
                   => ret = List(<<Rect(2, <<0, 0, 1, 1>>)>>)

\* C2: intersections(other) returns a list of 0, 1 or 2 GridBB objects, and
\* two returned rectangles share no cell.
C2_DisjointResults ==
    Done("GridBB.intersections") =>
        /\ ret.t = "list"
        /\ Len(ret.items) <= 2
        /\ \A i \in 1..Len(ret.items) : ret.items[i].t = "GridBB"
        /\ Len(ret.items) = 2
               => Cells(ret.items[1]) \cap Cells(ret.items[2]) = {}

\* C3: box.is_inside(t) is true exactly when box.intersections(B) is not
\* empty, B being the one-cell box with min = max = (t.x, t.y).
C3_InsideIffIntersects ==
    Done("GridBB.is_inside") =>
        /\ ret.t = "bool"
        /\ LET cell == <<args.tile.x.v, args.tile.y.v,
                         args.tile.x.v, args.tile.y.v>>
               r == GridBB_intersections(BoxOf(args.zoom, args.self),
                                         BoxOf(args.zoom, cell))
           IN  r.t = "list" /\ (ret.v <=> r.items # <<>>)

----------------------------------------------------------------------------
(* Properties of the conversions *)

\* C4: a valid tile converted to Mercator and back to a tile at the same
\* zoom has the same x and y.
C4_TileRoundTrip ==
    Done("to_mercator.to_tile") =>
        /\ ret.t = "TileCoordinate"
        /\ ret.x = args.self.x
        /\ ret.y = args.self.y

----------------------------------------------------------------------------
(* Properties of subdivision, quad keys and grid iteration *)

\* the <<x, y>> of the items of a list of grid coordinates
XYs(items) == [i \in 1..Len(items) |-> <<items[i].x.v, items[i].y.v>>]

ZoomInDone ==
    \/ Done("TileCoordinate.zoom_in")
    \/ Done("RegionCoordinate.zoom_in") /\ args.log_tiles_per_row \in 0..4

ZoomInParent == IF op = "TileCoordinate.zoom_in" THEN args.self ELSE args

\* every child is at zoom + 1, of the parent's class, and a region child
\* has the parent's log_tiles_per_row
ZoomInChildrenShape ==
    /\ ret.t = "list"
    /\ Len(ret.items) = 4
    /\ \A i \in 1..Len(ret.items) :
          /\ ret.items[i].zoom = ZoomInParent.zoom + 1
          /\ IF op = "TileCoordinate.zoom_in"
             THEN ret.items[i].t = "TileCoordinate"
             ELSE /\ ret.items[i].t = "RegionCoordinate"
                  /\ ret.items[i].log_tiles_per_row = args.log_tiles_per_row

\* C5 as stated: zoom_in() yields 4 coordinates at zoom + 1 in the order
\* (2x,2y), (2x+1,2y), (2x,2y+1), (2x+1,2y+1), x varying fastest.
C5_XFastest ==
    ZoomInDone =>
        LET x == ZoomInParent.x.v
            y == ZoomInParent.y.v
        IN  /\ ZoomInChildrenShape
            /\ XYs(ret.items) = << <<2 * x, 2 * y>>, <<2 * x + 1, 2 * y>>,
                                   <<2 * x, 2 * y + 1>>, <<2 * x + 1, 2 * y + 1>> >>

\* C5 amended: zoom_in() yields 4 coordinates at zoom + 1 in the order
\* (2x,2y), (2x,2y+1), (2x+1,2y), (2x+1,2y+1), y varying fastest; a region's
\* children carry the parent's log_tiles_per_row.
C5_YFastest ==
    ZoomInDone =>
        LET x == ZoomInParent.x.v
            y == ZoomInParent.y.v
        IN  /\ ZoomInChildrenShape
            /\ XYs(ret.items) = << <<2 * x, 2 * y>>, <<2 * x, 2 * y + 1>>,
                                   <<2 * x + 1, 2 * y>>, <<2 * x + 1, 2 * y + 1>> >>

C5_Witness ==
    /\ Done("RegionCoordinate.zoom_in")
    /\ args.log_tiles_per_row = 2
    /\ args.x = Num(1)
    /\ args.y = Num(0)
    /\ ret.t = "list"
    /\ XYs(ret.items)[2] = <<2, 1>>

\* the tiles of the regions of a list, region after region
RECURSIVE TilesOfRegions(_)
TilesOfRegions(regions) ==
    IF regions = <<>> THEN <<>>
    ELSE RegionCoordinate_get_tiles(Head(regions)).items
         \o TilesOfRegions(Tail(regions))

SeqRange(q) == {q[i] : i \in 1..Len(q)}

\* C6: the tiles of the 4 regions zoom_in() yields are exactly the tiles of
\* the parent refined one level (each (tx,ty) replaced by (2tx+a, 2ty+b),
\* a, b in {0,1}), and no tile comes from two children or twice.
C6_SubdivisionCovers ==
    (Done("RegionCoordinate.zoom_in") /\ args.log_tiles_per_row \in 0..4) =>
        LET parent == RegionCoordinate_get_tiles(
                          RegionCoordinate(args.zoom, args.x, args.y,
                                           args.log_tiles_per_row)).items
            refined == {TileCoordinate(args.zoom + 1,
                                       Num(2 * parent[i].x.v + a),
                                       Num(2 * parent[i].y.v + b)) :
                           i \in 1..Len(parent), a \in {0, 1}, b \in {0, 1}}
            sub == TilesOfRegions(ret.items)
        IN  /\ ret.t = "list"
            /\ Len(ret.items) = 4
            /\ SeqRange(sub) = refined
            /\ Len(sub) = Cardinality(refined)

C6_Witness ==
    /\ Done("RegionCoordinate.zoom_in")
    /\ args.log_tiles_per_row = 4
    /\ args.zoom = MaxZoom
    /\ args.x = Num(1)
    /\ ret.t = "list"
    /\ Len(TilesOfRegions(ret.items)) = 1024

\* bit k of a non-negative integer
Bit(n, k) == (n \div Pow2(k)) % 2

\* C7: the quad key of (z, x, y) has exactly z characters, the j-th being
\* the digit (bit z-j of x) + 2 * (bit z-j of y); at zoom 0 it is empty and
\* for zoom 1, x 1, y 1 it is "3".
C7_QuadKey ==
    Done("encode_quad_tree") =>
        LET z == args.self.zoom
            x == args.self.x.v
            y == args.self.y.v
        IN  /\ ret.t = "list"
            /\ Len(ret.items) = z
            /\ \A j \in 1..z :
                  ret.items[j] = Str(Bit(x, z - j) + 2 * Bit(y, z - j))
            /\ z = 0 => ret.items = <<>>
            /\ (z = 1 /\ x = 1 /\ y = 1) => ret.items = <<"3">>

C7_Witness ==
    /\ Done("encode_quad_tree")
    /\ args.self = TileCoordinate(2, Num(1), Num(2))
    /\ ret = List(<<"2", "1">>)

\* C8: griditer yields ceil(ncol/step) * ceil(nrow/step) pairs (nrow
\* defaulting to ncol), columns outer and rows inner, both ascending by
\* step from x and y and below x + ncol and y + nrow, none repeated and none
\* normalised; griditer(0,0,2) yields (0,0), (0,1), (1,0), (1,1).
C8_GridIter ==
    Done("griditer") =>
        LET nr == IF IsNone(args.nrow) THEN args.ncol ELSE args.nrow.v
            ncols == CeilDiv(args.ncol, args.step)
            nrows == CeilDiv(nr, args.step)
            q == ret.items
        IN  /\ ret.t = "list"
            /\ Len(q) = ncols * nrows
            /\ \A i \in 1..Len(q) :
                  /\ q[i][1] = args.x + ((i - 1) \div nrows) * args.step
                  /\ q[i][2] = args.y + ((i - 1) % nrows) * args.step
                  /\ q[i][1] \in args.x..(args.x + args.ncol - 1)
                  /\ q[i][2] \in args.y..(args.y + nr - 1)
            /\ \A i, j \in 1..Len(q) : q[i] = q[j] => i = j
            /\ (/\ args.x = 0 /\ args.y = 0 /\ args.ncol = 2
                /\ IsNone(args.nrow) /\ args.step = 1)
                   => q = << <<0, 0>>, <<0, 1>>, <<1, 0>>, <<1, 1>> >>

C8_Witness ==
    /\ Done("griditer")
    /\ args = [x |-> 1, y |-> 0, ncol |-> 3, nrow |-> Num(2), step |-> 2]
    /\ ret = List(<< <<1, 0>>, <<3, 0>> >>)

----------------------------------------------------------------------------
(* Properties of unset components and of the geographic bounding box *)

\* the two components of a coordinate object, longitude or x first
Components(c) ==
    IF c.t = "GeographicCoordinate" THEN <<c.lon, c.lat>> ELSE <<c.x, c.y>>

\* C9: to_mercator of a geographic coordinate, to_geographic and to_tile of
\* a Mercator coordinate and to_mercator of a tile complete without error
\* when a component of the input is unset; the same component of the result
\* is unset and the other one is a number.
C9_UnsetPropagates ==
    (/\ pc = "done"
     /\ op \in {"GeographicCoordinate.to_mercator",
                "MercatorCoordinate.to_geographic",
                "MercatorCoordinate.to_tile",
                "TileCoordinate.to_mercator"}) =>
        /\ ~IsExc(ret)
        /\ \A i \in 1..2 :
              IF IsNone(Components(args.self)[i])
              THEN IsNone(Components(ret)[i])
              ELSE Components(ret)[i].t = "num"

\* longitude range <<min, max>> of self as the j-th activation sees it
LonRange(self, j) ==
    IF j = 0 THEN <<self.min.lon.v, self.max.lon.v>>
    ELSE <<-180, self.max.lon.v - 360 * j>>

\* the box of the j-th activation overlaps other (bounds inclusive)
Overlaps(self, other, j) ==
    /\ LonRange(self, j)[1] <= other.max.lon.v
    /\ LonRange(self, j)[2] >= other.min.lon.v
    /\ self.min.lat.v <= other.max.lat.v
    /\ self.max.lat.v >= other.min.lat.v

\* the j-th activation is reached: every earlier box fails the overlap test
\* and has a max longitude above 180
Reached(self, other, j) ==
    \A i \in 0..(j - 1) :
        ~Overlaps(self, other, i) /\ LonRange(self, i)[2] > 180

\* the most retries a box can need: its max longitude drops by 360 each time
MaxRetries(self) == Max2(0, CeilDiv(self.max.lon.v - 180, 360))

\* C10: intersection(other) returns the box of the larger mins and smaller
\* maxes when the ranges overlap; otherwise, when self.max.lon > 180, what
\* intersecting [-180, self.max.lon - 360] x [self.min.lat, self.max.lat]
\* with other returns; otherwise the no-intersection value None, without
\* raising. The retries end: each lowers the max longitude by 360.
C10_GeoIntersection ==
    op = "GeographicBB.intersection" =>
        LET self == args.self
            other == args.other
            j == frame.depth
        IN  /\ frame.depth <= MaxRetries(self)
            /\ Reached(self, other, j)
            /\ pc # "start" =>
                  /\ frame.self.max.lon.v = LonRange(self, j)[2]
                  /\ frame.self.min.lon.v = LonRange(self, j)[1]
                  /\ frame.self.min.lat = self.min.lat
                  /\ frame.self.max.lat = self.max.lat
            /\ pc = "call" => LonRange(self, j - 1)[2] > 180
            /\ pc = "done" =>
                  IF Overlaps(self, other, j)
                  THEN ret = GeographicBB(
                           Num(Max2(LonRange(self, j)[1], other.min.lon.v)),
                           Num(Max2(self.min.lat.v, other.min.lat.v)),
                           Num(Min2(LonRange(self, j)[2], other.max.lon.v)),
                           Num(Min2(self.max.lat.v, other.max.lat.v)))
                  ELSE ret = None /\ LonRange(self, j)[2] <= 180

C10_Witness ==
    /\ Done("GeographicBB.intersection")
    /\ frame.depth = 1
    /\ args.self = GeographicBB(Num(170), Num(0), Num(190), Num(10))
    /\ args.other = GeographicBB(Num(-180), Num(0), Num(0), Num(0))
    /\ ret = GeographicBB(Num(-180), Num(0), Num(-170), Num(0))

----------------------------------------------------------------------------
(* Properties of the construction of grid boxes and of quad keys *)

\* C11: GridBB(zoom, min_x, min_y, max_x, max_y) with integer arguments
\* succeeds and yields a box with that zoom, min (zoom, min_x, min_y) and
\* max (zoom, max_x, max_y); so MercatorBB.to_tile returns a GridBB.
C11_GridBBConstructs ==
    /\ Done("GridBB") => ret = Rect(args.zoom, args.box)
    /\ Done("MercatorBB.to_tile") => ret.t = "GridBB" /\ ret.zoom = args.zoom

\* C12: the quad key of every child (z+1, 2x+a, 2y+b) that zoom_in() yields
\* for a valid tile is the parent's key followed by the digit a + 2b; and
\* two distinct valid tiles at the same zoom have different quad keys.
C12_QuadKeyOfChildren ==
    /\ Done("TileCoordinate.zoom_in") =>
          /\ ret.t = "list"
          /\ \A i \in 1..Len(ret.items) :
                LET a == ret.items[i].x.v - 2 * args.self.x.v
                    b == ret.items[i].y.v - 2 * args.self.y.v
                IN  /\ a \in {0, 1}
                    /\ b \in {0, 1}
                    /\ encode_quad_tree(ret.items[i])
                           = encode_quad_tree(args.self) \o <<Str(a + 2 * b)>>
    /\ (Done("encode_quad_tree") /\ args.self \in ValidTiles) =>
          \A u \in ValidTiles :
              (u.zoom = args.self.zoom /\ List(encode_quad_tree(u)) = ret)
                  => u = args.self

C12_Witness ==
    /\ Done("TileCoordinate.zoom_in")
    /\ args.self = TileCoordinate(1, Num(1), Num(0))
    /\ ret.t = "list"
    /\ ret.items[2] = TileCoordinate(2, Num(2), Num(1))
    /\ encode_quad_tree(ret.items[2]) = <<"1", "2">>

====
